---- MODULE Spec2Model ----
(***************************************************************************)
(* Model of the OpenAI-style dispatcher GPTAPI (src/Agent/llms/openai.py): *)
(* request building (generate_request_data), the retry loop with key and   *)
(* organisation rotation (_chat) and the batch fan-out (chat).             *)
(*                                                                         *)
(* Every send (_chat call) runs in its own thread; its steps are modelled  *)
(* at the granularity of the shared reads and writes of key_ctr, org_ctr   *)
(* and invalid_keys, because `with Lock()` builds a new lock object on     *)
(* every entry and therefore excludes nobody.                              *)
(***************************************************************************)
EXTENDS Integers, Sequences, FiniteSets, TLC

(* ------------------------------ bounds --------------------------------- *)
NumWorkers == 2       \* threads that may run _chat at the same time
MaxAttempts == 2      \* HTTP calls counted per send before the model stops it
MaxRetry == 1         \* largest configured retry budget
MaxCtr == 3           \* largest value of a rotation cursor (a lost wrap lets it grow)

(* ------------------------- program constants --------------------------- *)
HardCeiling == 4096   \* min(max_new_tokens, 4096)
PoolWidth == 20       \* ThreadPoolExecutor(max_workers=20)

Workers == 1..NumWorkers

(* ------------------------------ strings -------------------------------- *)
\* Strings whose characters matter are sequences of one-character strings.
Lower(c) ==
    CASE c = "G" -> "g" [] c = "P" -> "p" [] c = "T" -> "t"
      [] c = "Q" -> "q" [] c = "W" -> "w" [] c = "E" -> "e" [] c = "N" -> "n"
      [] c = "I" -> "i" [] c = "R" -> "r" [] c = "L" -> "l" [] c = "M" -> "m"
      [] OTHER -> c

LowerStr(s) == [i \in 1..Len(s) |-> Lower(s[i])]

StartsWith(s, p) == Len(s) >= Len(p) /\ SubSeq(s, 1, Len(p)) = p

IsSpace(c) == c \in {" ", "\n", "\t"}

RECURSIVE LStrip(_)
LStrip(s) == IF s # <<>> /\ IsSpace(Head(s)) THEN LStrip(Tail(s)) ELSE s

RECURSIVE RStrip(_)
RStrip(s) ==
    IF s # <<>> /\ IsSpace(s[Len(s)]) THEN RStrip(SubSeq(s, 1, Len(s) - 1)) ELSE s

Strip(s) == RStrip(LStrip(s))

(* ------------------------------ inputs --------------------------------- *)
ModelTypes ==
    { <<"g", "p", "t", "-", "4", "o">>,
      <<"Q", "w", "e", "n">>,
      <<"i", "n", "t", "e", "r", "n", "l", "m">>,
      <<"l", "l", "a", "m", "a">> }

KeyLists == { <<"k1", "k2">>, <<"k1", "k1">> }

OrgLists == { <<>>, <<"o1", "o2">> }

\* gen_params of one _chat call: a dict, here a function on the names given.
NoParams == [n \in {} |-> 0]
GenParamChoices ==
    { NoParams,
      [n \in {"max_new_tokens"} |-> 0],
      [n \in {"max_new_tokens"} |-> 512] }

\* Completion texts the endpoint may return.
Contents == { <<" ", "a", "\n">>, <<"b">> }

\* What one requests.post + raw_response.json() + response[...] can do.
Outcomes ==
    { "success", "connection_error", "json_decode_error", "rate_limit_exceeded",
      "insufficient_quota", "other_error_code", "no_error_field",
      "error_without_code", "other_exception" }

EndpointModes == { "any", "down" }

\* How the dispatcher is called: from several threads at once (chat's pool,
\* or callers of _chat on threads of their own), or by one caller that
\* waits for each call to end before the next.
CallerModes == { "threads", "single" }

\* fn_in and fn_out when no function is under study.
NoCall == [op |-> "none"]

(* --------------------------- exception names --------------------------- *)
AllKeysInsufficientQuota == "RuntimeError: All keys have insufficient quota."
FailedAfterRetrying == "RuntimeError: Calling OpenAI failed after retrying"
ModelNotSupported == "NotImplementedError: Model type is not supported"
KeyErrorExc == "KeyError"
TypeErrorExc == "TypeError"
IndexErrorExc == "IndexError"

NoResult == [kind |-> "none", exc |-> "", text |-> <<>>]
Returned(t) == [kind |-> "ok", exc |-> "", text |-> t]
Raised(e) == [kind |-> "raise", exc |-> e, text |-> <<>>]

(* ------------------------------- state --------------------------------- *)
VARIABLES
    model_type, retry, keys, orgs,   \* dispatcher configuration, fixed at construction
    endpoint,                        \* behaviour of the remote endpoint
    caller,                          \* calling discipline, see CallerModes
    invalid_keys, key_ctr, org_ctr,  \* shared mutable state of the dispatcher
    pc,                              \* position of each thread in _chat
    gen_params, messages,            \* arguments of each running _chat
    header,                          \* "dict", "str" ('' from the early return) or "none"
    max_num_retries,                 \* local of _chat
    key,                             \* local of _chat: the key selected
    sel_from,                        \* history: key_ctr when the thread entered line 77
    prev_key,                        \* history: the key of the send's previous pass
    prev_outcome,                    \* history: what the previous pass got back
    reg,                             \* value loaded by an in-place += before its store
    result,                          \* how each _chat ended
    attempts,                        \* number of requests.post calls of each send
    chat,                            \* the running chat() call, if any
    fn_in, fn_out                    \* a function studied on its own: arguments, outcome

config == <<model_type, retry, keys, orgs, endpoint, caller>>
aside == <<fn_in, fn_out>>
hist == <<sel_from, prev_key, prev_outcome>>
cfgvars == <<config, aside>>
shared == <<invalid_keys, key_ctr, org_ctr>>
vars == <<model_type, retry, keys, orgs, endpoint, caller, invalid_keys, key_ctr,
          org_ctr, pc, gen_params, messages, header, max_num_retries, key, sel_from,
          prev_key, prev_outcome, reg, result, attempts, chat, fn_in, fn_out>>

NoChat == [state |-> "idle", n |-> 0, single |-> FALSE, ret |-> <<>>, exc |-> ""]

\* The dispatcher right after GPTAPI.__init__, with no call made yet.
Constructed ==
    /\ invalid_keys = {}
    /\ key_ctr = 0
    /\ org_ctr = 0
    /\ pc = [w \in Workers |-> "idle"]
    /\ gen_params = [w \in Workers |-> NoParams]
    /\ messages = [w \in Workers |-> 0]
    /\ header = [w \in Workers |-> "none"]
    /\ max_num_retries = [w \in Workers |-> 0]
    /\ key = [w \in Workers |-> ""]
    /\ sel_from = [w \in Workers |-> 0]
    /\ prev_key = [w \in Workers |-> ""]
    /\ prev_outcome = [w \in Workers |-> ""]
    /\ reg = [w \in Workers |-> 0]
    /\ result = [w \in Workers |-> NoResult]
    /\ attempts = [w \in Workers |-> 0]
    /\ chat = NoChat

Init ==
    /\ model_type \in ModelTypes
    /\ retry \in 0..MaxRetry
    /\ keys \in KeyLists
    /\ orgs \in OrgLists
    /\ endpoint \in EndpointModes
    /\ caller = "threads"
    /\ Constructed
    /\ fn_in = NoCall
    /\ fn_out = NoCall

(* ------------------------ generate_request_data ------------------------ *)
Min(a, b) == IF a <= b THEN a ELSE b

IsGptOrQwen(mt) ==
    StartsWith(LowerStr(mt), <<"g", "p", "t">>)
        \/ StartsWith(LowerStr(mt), <<"q", "w", "e", "n">>)

IsInternlm(mt) == StartsWith(LowerStr(mt), <<"i", "n", "t", "e", "r", "n", "l", "m">>)

\* The outcome of generate_request_data(model_type, messages, gen_params):
\* exc is the exception it raises ("" when it returns), header the kind of
\* object returned as header ('' for a token limit <= 0, else a dict).
GenerateRequestData(mt, gp) ==
    IF "max_new_tokens" \notin DOMAIN gp
    THEN [exc |-> KeyErrorExc, header |-> "none"]
    ELSE IF Min(gp["max_new_tokens"], HardCeiling) <= 0
    THEN [exc |-> "", header |-> "str"]
    ELSE IF IsGptOrQwen(mt) \/ IsInternlm(mt)
    THEN [exc |-> "", header |-> "dict"]
    ELSE [exc |-> ModelNotSupported, header |-> "none"]

(* ------------------------------ _chat ---------------------------------- *)
\* A thread leaves _chat with result r.
Finish(w, r) ==
    /\ pc' = [pc EXCEPT ![w] = "done"]
    /\ result' = [result EXCEPT ![w] = r]

\* A thread moves on to label l.
Goto(w, l) ==
    /\ pc' = [pc EXCEPT ![w] = l]
    /\ result' = result

InBatch(w) == chat.state # "idle" /\ w <= chat.n

\* The history variables sel_from, prev_key and prev_outcome are kept for a single caller
\* only: "the previous selection" means nothing between racing threads.
Recorded(v, blank) == IF caller = "single" THEN v ELSE blank

\* No call on the dispatcher is in progress.
Quiet == chat.state = "idle" /\ \A w \in Workers : pc[w] = "idle"

\* `with Lock():` acquires a lock object created by this very statement, so
\* the acquisition never waits for another thread.
LockAcquired(w) == TRUE

\* Line 76 and lines 130-134: the loop test, with n the value of
\* max_num_retries, and the failure raised after the loop.
LoopTest(w, n) ==
    IF n < retry
    THEN Goto(w, "check")
    ELSE Finish(w, Raised(FailedAfterRetrying))

\* Lines 69-76: render, build the request, max_num_retries = 0, first loop test.
Build(w, gp) ==
    LET r == GenerateRequestData(model_type, gp) IN
      IF r.exc # ""
      THEN /\ Finish(w, Raised(r.exc))
           /\ UNCHANGED <<header, max_num_retries>>
      ELSE /\ LoopTest(w, 0)
           /\ header' = [header EXCEPT ![w] = r.header]
           /\ max_num_retries' = [max_num_retries EXCEPT ![w] = 0]

\* A caller invokes _chat(messages, **gen_params) directly on its own thread.
Send(w, gp, d) ==
    /\ pc[w] = "idle"
    /\ ~InBatch(w)
    /\ caller = "single" => Quiet
    /\ gen_params' = [gen_params EXCEPT ![w] = gp]
    /\ messages' = [messages EXCEPT ![w] = d]
    /\ Build(w, gp)
    /\ UNCHANGED <<cfgvars, hist, shared, key, reg, attempts, chat>>

\* Lines 77-79: enter the (fresh) lock, then the all-keys-invalid test.
CheckKeys(w) ==
    /\ pc[w] = "check"
    /\ LockAcquired(w)
    /\ IF Cardinality(invalid_keys) = Len(keys)
       THEN Finish(w, Raised(AllKeysInsufficientQuota))
       ELSE Goto(w, "inc_load")
    /\ sel_from' = [sel_from EXCEPT ![w] = Recorded(key_ctr, 0)]
    /\ UNCHANGED <<cfgvars, prev_key, prev_outcome, shared, gen_params, messages,
                   header, max_num_retries,
                   key, reg, attempts, chat>>

\* Line 83, first half of `self.key_ctr += 1`: load the attribute.
IncLoad(w) ==
    /\ pc[w] = "inc_load"
    /\ reg' = [reg EXCEPT ![w] = key_ctr]
    /\ Goto(w, "inc_store")
    /\ UNCHANGED <<cfgvars, hist, shared, gen_params, messages, header, max_num_retries,
                   key, attempts, chat>>

\* The value `self.key_ctr += 1` stores, given the value it loaded.
\* A cursor that advances by two places per step.
IncrementedByTwo(v) == v + 2

Incremented(v) == v + 1

\* Line 83, second half: store the incremented value.
IncStore(w) ==
    /\ pc[w] = "inc_store"
    /\ Incremented(reg[w]) <= MaxCtr
    /\ key_ctr' = Incremented(reg[w])
    /\ reg' = [reg EXCEPT ![w] = 0]
    /\ Goto(w, "wrap_test")
    /\ UNCHANGED <<cfgvars, hist, invalid_keys, org_ctr, gen_params, messages, header,
                   max_num_retries, key, attempts, chat>>

\* Line 84: `if self.key_ctr == len(self.keys)`.
WrapTest(w) ==
    /\ pc[w] = "wrap_test"
    /\ Goto(w, IF key_ctr = Len(keys) THEN "wrap_set" ELSE "valid_test")
    /\ UNCHANGED <<cfgvars, hist, shared, gen_params, messages, header, max_num_retries,
                   key, reg, attempts, chat>>

\* Line 85: `self.key_ctr = 0`.
WrapSet(w) ==
    /\ pc[w] = "wrap_set"
    /\ key_ctr' = 0
    /\ Goto(w, "valid_test")
    /\ UNCHANGED <<cfgvars, hist, invalid_keys, org_ctr, gen_params, messages, header,
                   max_num_retries, key, reg, attempts, chat>>

\* self.keys[i] for the 0-based index i: the list is 1-based here.
InRange(i, list) == 0 <= i /\ i < Len(list)
At(list, i) == list[i + 1]

\* Lines 87-88: `if self.keys[self.key_ctr] not in self.invalid_keys: break`.
ValidTest(w) ==
    /\ pc[w] = "valid_test"
    /\ IF ~InRange(key_ctr, keys)
       THEN Finish(w, Raised(IndexErrorExc))
       ELSE Goto(w, IF At(keys, key_ctr) \notin invalid_keys THEN "pick" ELSE "inc_load")
    /\ UNCHANGED <<cfgvars, hist, shared, gen_params, messages, header, max_num_retries,
                   key, reg, attempts, chat>>

\* Lines 90-93: `key = self.keys[self.key_ctr]`, then the header assignment,
\* which fails on the '' that the early return of generate_request_data gave,
\* then `if self.orgs:`.
Pick(w) ==
    /\ pc[w] = "pick"
    /\ IF ~InRange(key_ctr, keys)
       THEN /\ Finish(w, Raised(IndexErrorExc))
            /\ key' = key
       ELSE IF header[w] = "str"
       THEN /\ Finish(w, Raised(TypeErrorExc))
            /\ key' = key
       ELSE /\ key' = [key EXCEPT ![w] = At(keys, key_ctr)]
            /\ Goto(w, IF orgs # <<>> THEN "org_load" ELSE "post")
    /\ sel_from' = [sel_from EXCEPT ![w] = 0]
    /\ UNCHANGED <<cfgvars, prev_key, prev_outcome, shared, gen_params, messages,
                   header, max_num_retries,
                   reg, attempts, chat>>


\* Lines 94-95: enter a fresh lock; first half of `self.org_ctr += 1`.
OrgLoad(w) ==
    /\ pc[w] = "org_load"
    /\ LockAcquired(w)
    /\ reg' = [reg EXCEPT ![w] = org_ctr]
    /\ Goto(w, "org_store")
    /\ UNCHANGED <<cfgvars, hist, shared, gen_params, messages, header, max_num_retries,
                   key, attempts, chat>>

\* Line 95, second half.
OrgStore(w) ==
    /\ pc[w] = "org_store"
    /\ Incremented(reg[w]) <= MaxCtr
    /\ org_ctr' = Incremented(reg[w])
    /\ reg' = [reg EXCEPT ![w] = 0]
    /\ Goto(w, "org_wrap_test")
    /\ UNCHANGED <<cfgvars, hist, invalid_keys, key_ctr, gen_params, messages, header,
                   max_num_retries, key, attempts, chat>>

\* Line 96: `if self.org_ctr == len(self.orgs)`.
OrgWrapTest(w) ==
    /\ pc[w] = "org_wrap_test"
    /\ Goto(w, IF org_ctr = Len(orgs) THEN "org_wrap_set" ELSE "org_pick")
    /\ UNCHANGED <<cfgvars, hist, shared, gen_params, messages, header, max_num_retries,
                   key, reg, attempts, chat>>

\* Line 97: `self.org_ctr = 0`.
OrgWrapSet(w) ==
    /\ pc[w] = "org_wrap_set"
    /\ org_ctr' = 0
    /\ Goto(w, "org_pick")
    /\ UNCHANGED <<cfgvars, hist, invalid_keys, key_ctr, gen_params, messages, header,
                   max_num_retries, key, reg, attempts, chat>>

\* Line 98: `header['OpenAI-Organization'] = self.orgs[self.org_ctr]`.
OrgPick(w) ==
    /\ pc[w] = "org_pick"
    /\ IF ~InRange(org_ctr, orgs)
       THEN Finish(w, Raised(IndexErrorExc))
       ELSE Goto(w, "post")
    /\ UNCHANGED <<cfgvars, hist, shared, gen_params, messages, header, max_num_retries,
                   key, reg, attempts, chat>>

\* The outcomes the endpoint can produce in each mode.
EndpointOutcomes(mode) == IF mode = "down" THEN {"connection_error"} ELSE Outcomes

\* Lines 105-121: the handlers that end in `continue`.
Continues(o) ==
    o \in {"connection_error", "json_decode_error", "rate_limit_exceeded",
           "insufficient_quota"}

\* max_num_retries after one pass that did not return: `continue` skips
\* line 128, every other pass runs `max_num_retries += 1`.
RetriesAfter(o, n) == IF Continues(o) THEN n ELSE n + 1

\* The mutant: the quota handler rebuilds the set instead of adding to it.
InvalidAfterRebuilt(o, k, inv) == IF o = "insufficient_quota" THEN {k} ELSE inv

\* invalid_keys after one pass: lines 118-119 add the key in use.
\* A handler that never records the exhausted key.
InvalidAfterForgetful(o, k, inv) == inv

InvalidAfter(o, k, inv) == IF o = "insufficient_quota" THEN inv \cup {k} ELSE inv

\* Lines 100-128 and 76: one requests.post, the handling of what came back
\* and, unless the pass returned or raised, the next loop test.
Post(w, o, c) ==
    /\ pc[w] = "post"
    /\ attempts[w] < MaxAttempts
    /\ o \in EndpointOutcomes(endpoint)
    /\ attempts' = [attempts EXCEPT ![w] = @ + 1]
    /\ invalid_keys' = InvalidAfter(o, key[w], invalid_keys)
    /\ IF o = "success"
       THEN /\ Finish(w, Returned(Strip(c)))
            /\ UNCHANGED max_num_retries
       ELSE IF o = "error_without_code"
       THEN /\ Finish(w, Raised(KeyErrorExc))
            /\ UNCHANGED max_num_retries
       ELSE /\ LoopTest(w, RetriesAfter(o, max_num_retries[w]))
            /\ max_num_retries' =
                   [max_num_retries EXCEPT ![w] = RetriesAfter(o, @)]
    /\ key' = [key EXCEPT ![w] = ""]    \* not read again before line 90 assigns it
    /\ prev_key' = [prev_key EXCEPT ![w] = Recorded(key[w], "")]
    /\ prev_outcome' = [prev_outcome EXCEPT ![w] = Recorded(o, "")]
    /\ UNCHANGED <<cfgvars, sel_from, key_ctr, org_ctr, gen_params, messages, header,
                   reg, chat>>

\* The locals of a thread that is not running _chat.
Cleared(f, ws, v) == [w \in Workers |-> IF w \in ws THEN v ELSE f[w]]

ClearThreads(ws) ==
    /\ pc' = Cleared(pc, ws, "idle")
    /\ gen_params' = Cleared(gen_params, ws, NoParams)
    /\ messages' = Cleared(messages, ws, 0)
    /\ header' = Cleared(header, ws, "none")
    /\ max_num_retries' = Cleared(max_num_retries, ws, 0)
    /\ key' = Cleared(key, ws, "")
    /\ sel_from' = Cleared(sel_from, ws, 0)
    /\ prev_key' = Cleared(prev_key, ws, "")
    /\ prev_outcome' = Cleared(prev_outcome, ws, "")
    /\ reg' = Cleared(reg, ws, 0)
    /\ result' = Cleared(result, ws, NoResult)
    /\ attempts' = Cleared(attempts, ws, 0)

\* The caller of a direct _chat gets its result or exception.
Collect(w) ==
    /\ pc[w] = "done"
    /\ ~InBatch(w)
    /\ ClearThreads({w})
    /\ UNCHANGED <<cfgvars, shared, chat>>

(* ------------------------------- chat ---------------------------------- *)
\* Lines 58-63: chat(inputs) on n dialogues (single: one dialogue that is
\* not wrapped in a list). inputs[0] fails on an empty list; otherwise every
\* dialogue is submitted as self._chat(messages), with no gen_params.
ChatCall(n, single) ==
    /\ chat.state = "idle"
    /\ \A w \in Workers : pc[w] = "idle"
    /\ single => n = 1
    /\ caller = "single" => n <= 1
    /\ IF n = 0
       THEN /\ chat' = [NoChat EXCEPT !.state = "raised", !.exc = IndexErrorExc]
            /\ UNCHANGED <<pc, gen_params, messages>>
       ELSE /\ chat' = [NoChat EXCEPT !.state = "running", !.n = n, !.single = single]
            /\ pc' = [w \in Workers |-> IF w <= n THEN "queued" ELSE pc[w]]
            /\ gen_params' = [w \in Workers |->
                                 IF w <= n THEN NoParams ELSE gen_params[w]]
            /\ messages' = [w \in Workers |-> IF w <= n THEN w ELSE messages[w]]
    /\ UNCHANGED <<cfgvars, hist, shared, header, max_num_retries, key, reg, result,
                   attempts>>

\* The executor runs a submitted task when one of its max_workers threads is
\* free: the task is self._chat(messages), with gen_params = {}.
TaskStart(w) ==
    /\ pc[w] = "queued"
    /\ InBatch(w)
    /\ Cardinality({v \in 1..chat.n : pc[v] \notin {"queued", "done"}}) < PoolWidth
    /\ Build(w, gen_params[w])
    /\ UNCHANGED <<cfgvars, hist, shared, gen_params, messages, key, reg, attempts,
                   chat>>

\* Line 64: `[task.result() for task in tasks]`, in submission order;
\* task.result() raises what the task raised.
TaskResults(n) == [i \in 1..n |-> result[i]]

FailedTasks(n) == {i \in 1..n : result[i].kind = "raise"}

FirstFailed(n) == CHOOSE i \in FailedTasks(n) : \A j \in FailedTasks(n) : i <= j

\* Lines 59-65: leaving the `with` block waits for every task; then the
\* results are gathered and returned, or the first exception propagates.
ChatJoin ==
    /\ chat.state = "running"
    /\ \A w \in 1..chat.n : pc[w] = "done"
    /\ chat' = IF FailedTasks(chat.n) # {}
               THEN [chat EXCEPT !.state = "raised",
                                 !.exc = result[FirstFailed(chat.n)].exc]
               ELSE [chat EXCEPT !.state = "returned", !.ret = TaskResults(chat.n)]
    /\ UNCHANGED <<cfgvars, hist, shared, pc, gen_params, messages, header,
                   max_num_retries,
                   key, reg, result, attempts>>

\* The caller of chat() has its answer; the tasks are gone.
ChatReset ==
    /\ chat.state \in {"returned", "raised"}
    /\ chat' = NoChat
    /\ ClearThreads(1..chat.n)
    /\ UNCHANGED <<cfgvars, shared>>

(* --------------------------- specification ----------------------------- *)
Next ==
    \/ \E w \in Workers, gp \in GenParamChoices : Send(w, gp, 1)
    \/ \E w \in Workers : CheckKeys(w)
    \/ \E w \in Workers : IncLoad(w)
    \/ \E w \in Workers : IncStore(w)
    \/ \E w \in Workers : WrapTest(w)
    \/ \E w \in Workers : WrapSet(w)
    \/ \E w \in Workers : ValidTest(w)
    \/ \E w \in Workers : Pick(w)
    \/ \E w \in Workers : OrgLoad(w)
    \/ \E w \in Workers : OrgStore(w)
    \/ \E w \in Workers : OrgWrapTest(w)
    \/ \E w \in Workers : OrgWrapSet(w)
    \/ \E w \in Workers : OrgPick(w)
    \/ \E w \in Workers, o \in Outcomes, c \in Contents : Post(w, o, c)
    \/ \E w \in Workers : Collect(w)
    \/ \E n \in 0..NumWorkers, single \in BOOLEAN : ChatCall(n, single)
    \/ \E w \in Workers : TaskStart(w)
    \/ ChatJoin
    \/ ChatReset

Spec == Init /\ [][Next]_vars

\* A dispatcher used by a single caller, one call at a time.
MoreKeyLists == { <<"k1">>, <<"k1", "k2", "k3">>, <<"k1", "k2", "k1">> }

InitSingle ==
    /\ model_type \in ModelTypes
    /\ retry \in 0..MaxRetry
    /\ keys \in KeyLists \cup MoreKeyLists
    /\ orgs \in OrgLists
    /\ endpoint \in EndpointModes
    /\ caller = "single"
    /\ Constructed
    /\ fn_in = NoCall
    /\ fn_out = NoCall

SpecSingle == InitSingle /\ [][Next]_vars

\* A thread that can take a step of _chat eventually takes one.
ThreadStep(w) ==
    \/ CheckKeys(w) \/ IncLoad(w) \/ IncStore(w) \/ WrapTest(w) \/ WrapSet(w)
    \/ ValidTest(w) \/ Pick(w)
    \/ OrgLoad(w) \/ OrgStore(w) \/ OrgWrapTest(w) \/ OrgWrapSet(w) \/ OrgPick(w)

Fairness == \A w \in Workers : WF_vars(ThreadStep(w))

SpecSingleFair == InitSingle /\ [][Next]_vars /\ Fairness

(* ------------------- functions studied on their own -------------------- *)
\* A dispatcher that is constructed and not in use while a function of the
\* library is applied to an input.
AtRest ==
    /\ model_type = <<"g", "p", "t", "-", "4", "o">>
    /\ retry = 0
    /\ keys = <<"k1", "k2">>
    /\ orgs = <<>>
    /\ endpoint = "any"
    /\ caller = "single"
    /\ Constructed

InitFn == AtRest /\ fn_in = NoCall /\ fn_out = NoCall

rest == <<config, shared, pc, gen_params, messages, header, max_num_retries, key,
          hist, reg, result, attempts, chat>>

\* The function returned; the next call may be made.
FnReturn ==
    /\ fn_in # NoCall
    /\ fn_in' = NoCall
    /\ fn_out' = NoCall
    /\ UNCHANGED rest

(* ---------------------------- request body ----------------------------- *)
\* Dicts are functions on their key names.
Pop(d, ks) == [k \in DOMAIN d \ ks |-> d[k]]
Put(d, name, v) == [k \in DOMAIN d \cup {name} |-> IF k = name THEN v ELSE d[k]]
Rename(d, old, new) == IF old \in DOMAIN d THEN Put(Pop(d, {old}), new, d[old]) ELSE d

\* self.gen_params of a dispatcher constructed without generation
\* parameters: the defaults of the base class less top_k (line 38).
DefaultGenParams ==
    [max_new_tokens |-> 512, top_p |-> "0.8", temperature |-> "0.8",
     repetition_penalty |-> "1.0", stop_words |-> "None"]

GenParamNames ==
    {"max_new_tokens", "top_p", "temperature", "repetition_penalty", "stop_words",
     "top_k"}

\* Values a caller may give per call for each name.
ValuesOf(name) ==
    CASE name = "max_new_tokens" -> <<0, 100, 5000>>
      [] name = "top_p" -> <<"0.8", "0.5">>
      [] name = "temperature" -> <<"0.8", "0.2">>
      [] name = "repetition_penalty" -> <<"1.0", "1.2">>
      [] name = "stop_words" -> <<"None", "['.']">>
      [] name = "top_k" -> <<"40", "10">>

\* The keyword arguments of one call: c[name] = 0 leaves the name out,
\* c[name] = i gives it the i-th value.
KwargChoices ==
    { c \in [GenParamNames -> 0..3] : \A k \in GenParamNames : c[k] <= Len(ValuesOf(k)) }

Kwargs(c) == [k \in {n \in GenParamNames : c[n] # 0} |-> ValuesOf(k)[c[k]]]

\* The body of generate_request_data after the token-limit test: the dict
\* `data` less its 'messages' entry.
RequestBody(mt, gp, json_mode) ==
    LET limited == Put(Pop(gp, {"max_new_tokens"}), "max_tokens",
                       Min(gp["max_new_tokens"], HardCeiling))
        renamed == Rename(Rename(limited, "stop_words", "stop"),
                          "repetition_penalty", "frequency_penalty")
        kept == IF IsGptOrQwen(mt)
                THEN Pop(renamed, {"top_k", "skip_special_tokens", "session_id"})
                ELSE renamed
        data == Put(Put(kept, "model", mt), "n", 1)
    IN  IF json_mode THEN Put(data, "response_format", "json_object") ELSE data

\* Lines 70-73 of _chat: generate_request_data is given the keyword
\* arguments of the call, and nothing else.
ChatRequest(mt, kw, json_mode) ==
    LET r == GenerateRequestData(mt, kw)
    IN  [exc |-> r.exc, header |-> r.header,
         data |-> IF r.exc = "" /\ r.header = "dict"
                  THEN RequestBody(mt, kw, json_mode)
                  ELSE NoParams]

RequestCall(mt, c, json_mode) ==
    /\ fn_in = NoCall
    /\ fn_in' = [op |-> "request", model_type |-> mt, kwargs |-> Kwargs(c),
                 json_mode |-> json_mode]
    /\ fn_out' = ChatRequest(mt, Kwargs(c), json_mode)
    /\ UNCHANGED rest

NextRequest ==
    \/ \E mt \in ModelTypes, c \in KwargChoices, jm \in BOOLEAN : RequestCall(mt, c, jm)
    \/ FnReturn

SpecRequest == InitFn /\ [][NextRequest]_vars

(* -------------------------- LMTemplateParser --------------------------- *)
\* Text is a sequence of atoms, '' is <<>> and + is \o.
MaxRoles == 3         \* longest meta-template
MaxTurns == 2         \* longest dialogue

Get(d, name, default) == IF name \in DOMAIN d THEN d[name] ELSE default

\* A begin phrase is a plain string or a dict with the entries 'with_name'
\* (a template with the field {name}), 'without_name' and 'name' (aliases).
Str(t) == [kind |-> "str", text |-> t]
Dict(d) == [kind |-> "dict", d |-> d]

SysCfg == [role |-> "system", begin |-> Str(<<"<S>">>), end |-> <<"</S>">>]
UserCfg == [role |-> "user", begin |-> Str(<<"<U>">>), end |-> <<"</U>">>]
UserAlt == [role |-> "user", begin |-> Str(<<"[">>), end |-> <<"]">>]
AsstGen ==
    [role |-> "assistant", begin |-> Str(<<"<A>">>), end |-> <<"</A>">>,
     generate |-> TRUE]
AsstNamed ==
    [role |-> "assistant",
     begin |-> Dict([with_name |-> <<"<A ", "{name}", ">">>,
                     without_name |-> <<"<A>">>,
                     name |-> [py |-> "python"]]),
     end |-> <<"</A>">>]
BotCfg == [role |-> "bot", fallback_role |-> "assistant"]
EnvCfg == [role |-> "environment", fallback_role |-> "tool"]

RoleEntries == {SysCfg, UserCfg, UserAlt, AsstGen, AsstNamed, BotCfg, EnvCfg}

\* Meta-templates; None and [] are both <<>>.
MetaTemplates == UNION { [1..n -> RoleEntries] : n \in 0..MaxRoles }

RawTurn == [raw |-> <<"r">>]
Turns ==
    { RawTurn,
      [role |-> "system", content |-> <<"x">>],
      [role |-> "user", content |-> <<"y">>],
      [role |-> "assistant", content |-> <<"z">>],
      [role |-> "assistant", content |-> <<"z">>, name |-> "py"],
      [role |-> "user", content |-> <<"y">>, name |-> "bob"],
      [role |-> "bot", content |-> <<"b">>],
      [role |-> "environment", content |-> <<"e">>] }

Dialogs == UNION { [1..n -> Turns] : n \in 0..MaxTurns }

IsRaw(turn) == "raw" \in DOMAIN turn

NotUnique == "AssertionError: role in meta prompt must be unique!"
AttributeErrorExc == "AttributeError"
UnboundLocalErrorExc == "UnboundLocalError"

NoRoles == [r \in {} |-> 0]

\* None, as dict.get returns it for a role that is not in the table.
NoneCfg == [none |-> TRUE]
IsNone(cfg) == "none" \in DOMAIN cfg

\* Lines 13-17: the loop over the meta-template from entry i on.
RECURSIVE BuildRoles(_, _, _)
BuildRoles(mt, i, roles) ==
    IF i > Len(mt) THEN [exc |-> "", roles |-> roles]
    ELSE IF mt[i].role \in DOMAIN roles THEN [exc |-> NotUnique, roles |-> roles]
    ELSE BuildRoles(mt, i + 1, Put(roles, mt[i].role, mt[i]))

\* A constructor that lets a later entry replace an earlier one of its role.
RECURSIVE BuildRolesOverwriting(_, _, _)
BuildRolesOverwriting(mt, i, roles) ==
    IF i > Len(mt) THEN [exc |-> "", roles |-> roles]
    ELSE BuildRolesOverwriting(mt, i + 1, Put(roles, mt[i].role, mt[i]))

TemplateInitOverwriting(mt) == BuildRolesOverwriting(mt, 1, NoRoles)

\* LMTemplateParser.__init__(meta_template).
TemplateInit(mt) == BuildRoles(mt, 1, NoRoles)

\* str.format(name=n) on a template.
Format(tpl, n) == [i \in 1..Len(tpl) |-> IF tpl[i] = "{name}" THEN n ELSE tpl[i]]

\* _format_begin(role_cfg, message); role_cfg is None after a failed lookup.
FormatBegin(role_cfg, message) ==
    IF "name" \in DOMAIN message
    THEN IF IsNone(role_cfg) THEN [exc |-> TypeErrorExc, text |-> <<>>]
         ELSE IF "begin" \notin DOMAIN role_cfg THEN [exc |-> KeyErrorExc, text |-> <<>>]
         ELSE IF role_cfg.begin.kind = "str"
         THEN [exc |-> AttributeErrorExc, text |-> <<>>]
         ELSE LET d == role_cfg.begin.d
                  tpl == Get(d, "with_name", <<>>)
                  known == Get(d, "name", NoRoles)
              IN  [exc |-> "",
                   text |-> IF message.name \in DOMAIN known
                            THEN Format(tpl, known[message.name])
                            ELSE Format(tpl, message.name)]
    ELSE IF IsNone(role_cfg) THEN [exc |-> AttributeErrorExc, text |-> <<>>]
         ELSE IF "begin" \notin DOMAIN role_cfg THEN [exc |-> "", text |-> <<>>]
         ELSE IF role_cfg.begin.kind = "str"
         THEN [exc |-> "", text |-> role_cfg.begin.text]
         ELSE [exc |-> "", text |-> Get(role_cfg.begin.d, "without_name", <<>>)]

\* Lines 57-60: roles.get(role), then one hop through fallback_role.
Resolve(roles, prompt) ==
    LET first == Get(roles, prompt.role, NoneCfg)
    IN  IF IsNone(first) THEN [exc |-> AttributeErrorExc, cfg |-> NoneCfg]
        ELSE IF "fallback_role" \in DOMAIN first
        THEN [exc |-> "", cfg |-> Get(roles, first.fallback_role, NoneCfg)]
        ELSE [exc |-> "", cfg |-> first]

\* What lines 61-70 do with the resolved config and its begin phrase.
\* closing: the branch for a last turn flagged generate also appends the end.
Prompt2StrWith(roles, prompt, last, closing) ==
    LET r == Resolve(roles, prompt)
        b == FormatBegin(r.cfg, prompt)
        content == Get(prompt, "content", <<>>)
    IN  IF r.exc # "" THEN [exc |-> r.exc, text |-> <<>>]
        ELSE IF b.exc # "" THEN b
        ELSE IF last /\ Get(r.cfg, "generate", FALSE)
        THEN [exc |-> "",
              text |-> b.text \o content
                         \o (IF closing THEN Get(r.cfg, "end", <<>>) ELSE <<>>)]
        ELSE IF last /\ r.cfg.role # "assistant"
        THEN IF "assistant" \notin DOMAIN roles
             THEN [exc |-> KeyErrorExc, text |-> <<>>]
             ELSE LET a == FormatBegin(roles["assistant"], NoRoles)
                  IN  [exc |-> a.exc,
                       text |-> b.text \o content \o Get(r.cfg, "end", <<>>) \o a.text]
        ELSE [exc |-> "", text |-> b.text \o content \o Get(r.cfg, "end", <<>>)]

\* A renderer that closes the last turn flagged generate as any other turn.
Prompt2StrClosing(roles, prompt, last) == Prompt2StrWith(roles, prompt, last, TRUE)

\* _prompt2str(prompt, last) for a structured turn.
Prompt2Str(roles, prompt, last) == Prompt2StrWith(roles, prompt, last, FALSE)

\* Lines 28-34: the loop over the dialogue from turn i on.
RECURSIVE RenderFrom(_, _, _, _)
RenderFrom(roles, dialog, i, prompt) ==
    IF i > Len(dialog) THEN [exc |-> "", text |-> prompt]
    ELSE IF IsRaw(dialog[i])
    THEN RenderFrom(roles, dialog, i + 1, prompt \o dialog[i].raw)
    ELSE LET p == Prompt2Str(roles, dialog[i], i = Len(dialog))
         IN  IF p.exc # "" THEN p
             ELSE RenderFrom(roles, dialog, i + 1, prompt \o p.text)

\* LMTemplateParser.__call__(dialog) for a list; without a meta-template
\* line 35 reads `prompt` before any assignment.
Render(mt, roles, dialog) ==
    IF mt = <<>> THEN [exc |-> UnboundLocalErrorExc, text |-> <<>>]
    ELSE RenderFrom(roles, dialog, 1, <<>>)

TemplateConstruct(mt) ==
    /\ fn_in = NoCall
    /\ fn_in' = [op |-> "construct", meta_template |-> mt]
    /\ fn_out' = TemplateInit(mt)
    /\ UNCHANGED rest

TemplateRender(dialog) ==
    /\ fn_in.op = "construct"
    /\ fn_out.exc = ""
    /\ fn_in' = [op |-> "render", meta_template |-> fn_in.meta_template,
                 roles |-> fn_out.roles, dialog |-> dialog]
    /\ fn_out' = Render(fn_in.meta_template, fn_out.roles, dialog)
    /\ UNCHANGED rest

NextTemplate ==
    \/ \E mt \in MetaTemplates : TemplateConstruct(mt)
    \/ \E dialog \in Dialogs : TemplateRender(dialog)
    \/ FnReturn

SpecTemplate == InitFn /\ [][NextTemplate]_vars

(* ------------------------------ JsonParser ----------------------------- *)
ParamNames == {"a", "b", "c"}

\* api['parameters'] (the names of the declared parameters, in order) and
\* api['required'] of an action's description.
ParamLists == { <<>>, <<"a">>, <<"a", "b">>, <<"a", "b", "c">>, <<"a", "a">> }
RequiredLists == { <<>>, <<"a">>, <<"b">>, <<"a", "b">>, <<"c">>, <<"a", "c">> }

SetOf(list) == {list[i] : i \in 1..Len(list)}

\* Argument mappings: some of the names, each with a value.
Mappings == UNION { [ks -> {1, 2}] : ks \in SUBSET ParamNames }

\* What a caller passes: a dict, or a string, which json.loads (after the
\* ```json fence, if any, is taken off) turns into a mapping or rejects.
ParserInputs ==
    { [kind |-> "dict", value |-> m] : m \in Mappings }
        \cup { [kind |-> "str", json |-> TRUE, value |-> m] : m \in Mappings }
        \cup { [kind |-> "str", json |-> FALSE, value |-> NoParams] }

UnknownParameters == "ValueError: unknown parameters for function"
InvalidJson == "ParseError: invalid json format"
UnknownArguments == "ParseError: unknown arguments"
MissingRequired == "ParseError: missing required arguments"

\* BaseParser.__init__ for an action with one api, not a toolkit.
ParserInit(parameters, required) ==
    IF ~(SetOf(required) \subseteq SetOf(parameters))
    THEN [exc |-> UnknownParameters, api2param |-> <<>>, api2required |-> <<>>]
    ELSE [exc |-> "", api2param |-> parameters, api2required |-> required]

\* Lines 64-72: the mapping the checks are made on.
Decoded(input) ==
    IF input.kind = "dict" THEN [exc |-> "", value |-> input.value]
    ELSE IF input.json THEN [exc |-> "", value |-> input.value]
    ELSE [exc |-> InvalidJson, value |-> NoParams]

\* A validator that looks for missing names before unknown ones.
ParseInputsMissingFirst(api2param, api2required, input) ==
    LET d == Decoded(input)
        input_keys == DOMAIN d.value
    IN  IF d.exc # "" THEN d
        ELSE IF ~(SetOf(api2required) \subseteq input_keys)
        THEN [exc |-> MissingRequired, value |-> NoParams]
        ELSE IF ~(input_keys \subseteq SetOf(api2param))
        THEN [exc |-> UnknownArguments, value |-> NoParams]
        ELSE [exc |-> "", value |-> d.value]

\* JsonParser.parse_inputs(inputs).
ParseInputs(api2param, api2required, input) ==
    LET d == Decoded(input)
        input_keys == DOMAIN d.value
        all_keys == SetOf(api2param)
        required_keys == SetOf(api2required)
    IN  IF d.exc # "" THEN d
        ELSE IF ~(input_keys \subseteq all_keys)
        THEN [exc |-> UnknownArguments, value |-> NoParams]
        ELSE IF ~(required_keys \subseteq input_keys)
        THEN [exc |-> MissingRequired, value |-> NoParams]
        ELSE [exc |-> "", value |-> d.value]

ParserConstruct(parameters, required) ==
    /\ fn_in = NoCall
    /\ fn_in' = [op |-> "parser", parameters |-> parameters, required |-> required]
    /\ fn_out' = ParserInit(parameters, required)
    /\ UNCHANGED rest

ParserCall(input) ==
    /\ fn_in.op = "parser"
    /\ fn_out.exc = ""
    /\ fn_in' = [op |-> "parse", parameters |-> fn_out.api2param,
                 required |-> fn_out.api2required, input |-> input]
    /\ fn_out' = ParseInputs(fn_out.api2param, fn_out.api2required, input)
    /\ UNCHANGED rest

NextParser ==
    \/ \E ps \in ParamLists, rs \in RequiredLists : ParserConstruct(ps, rs)
    \/ \E input \in ParserInputs : ParserCall(input)
    \/ FnReturn

SpecParser == InitFn /\ [][NextParser]_vars


(* ------------------------------ claims --------------------------------- *)
\* The positions of _chat between entering `with Lock():` at line 77 and
\* leaving it after line 91.
KeySection == {"inc_load", "inc_store", "wrap_test", "wrap_set", "valid_test", "pick"}

InKeySection(w) == pc[w] \in KeySection

AllKeysInvalidated == \A i \in 1..Len(keys) : keys[i] \in invalid_keys

SupportedModel == IsGptOrQwen(model_type) \/ IsInternlm(model_type)

\* C1: with a retry budget of N and an endpoint that always fails with a
\* connection error, a send makes exactly N HTTP attempts and then fails
\* with the 'Calling OpenAI failed after retrying' RuntimeError: it never
\* makes more than N attempts, and when it has failed that way it made N.
C1_ExactlyNAttemptsThenFails ==
    endpoint = "down" =>
        \A w \in Workers :
            /\ attempts[w] <= retry
            /\ result[w] = Raised(FailedAfterRetrying) => attempts[w] = retry

\* C2: every pass of the retry loop that does not succeed consumes one retry
\* unit, so the HTTP calls made by a send equal the units it has consumed and
\* never exceed its budget.
C2_EveryPassConsumesOneUnit ==
    \A w \in Workers :
        pc[w] \in KeySection \cup {"check", "post"} =>
            /\ max_num_retries[w] = attempts[w]
            /\ attempts[w] < retry

\* C3: under any interleaving, the key a thread selects at line 90 is not in
\* the invalidated set at that moment, whenever some key is not invalidated.
C3_SelectedKeyNotInvalidated ==
    [][\A w \in Workers :
          (pc[w] = "pick" /\ pc'[w] \in {"org_load", "post"} /\ ~AllKeysInvalidated)
              => key'[w] \notin invalid_keys]_vars

\* C4: once every key is invalidated, a send with a positive budget that
\* reaches the key selection leaves it with the 'All keys have insufficient
\* quota.' RuntimeError, with no HTTP call made and no retry unit consumed.
C4_ExhaustedCredentialsWithoutCall ==
    [][\A w \in Workers :
          (pc[w] = "check" /\ attempts[w] = 0 /\ AllKeysInvalidated /\ pc'[w] # "check")
              => /\ pc'[w] = "done"
                 /\ result'[w] = Raised(AllKeysInsufficientQuota)
                 /\ attempts'[w] = 0
                 /\ max_num_retries'[w] = 0]_vars

\* C5: no two threads are inside the key critical section at the same time.
C5_KeySectionMutualExclusion ==
    \A v, w \in Workers : (v # w /\ InKeySection(v)) => ~InKeySection(w)

\* C6: a batch call never raises because a dialogue's send failed: it returns
\* a list as long as the batch whose element at a failed position is that
\* send's failure value.
C6_BatchNeverRaises ==
    (chat.state \in {"returned", "raised"} /\ ~chat.single /\ chat.n >= 1) =>
        /\ chat.state = "returned"
        /\ Len(chat.ret) = chat.n
        /\ \A i \in FailedTasks(chat.n) : chat.ret[i] = result[i]

\* C7: a batch call returns a list as long as its input whose element i is
\* the outcome of the send for dialogue i, whatever order the sends end in.
C7_BatchOutputInInputOrder ==
    (chat.state \in {"returned", "raised"} /\ ~chat.single /\ chat.n >= 1) =>
        /\ chat.state # "raised"
        /\ DOMAIN chat.ret = 1..chat.n
        /\ \A i \in 1..chat.n : chat.ret[i] = result[i] /\ messages[i] = i

\* C8: with a model type outside gpt*, qwen* and internlm*, every send fails
\* with NotImplementedError before the retry loop: no position inside the
\* loop is reached, no HTTP call is made and the key cursor is not advanced.
C8_UnsupportedModelFailsFirst ==
    ~SupportedModel =>
        /\ key_ctr = 0
        /\ \A w \in Workers :
              /\ pc[w] \in {"idle", "queued", "done"}
              /\ attempts[w] = 0
              /\ pc[w] = "done" => result[w] = Raised(ModelNotSupported)

\* C9: a send ends in a trimmed completion string or in one of the three
\* errors NotImplementedError (model), 'All keys have insufficient quota.'
\* and 'Calling OpenAI failed after retrying'; nothing else reaches the caller.
C9_FourOutcomes ==
    \A w \in Workers :
        pc[w] = "done" =>
            \/ result[w].kind = "ok" /\ Strip(result[w].text) = result[w].text
            \/ /\ result[w].kind = "raise"
               /\ result[w].exc \in {ModelNotSupported, AllKeysInsufficientQuota,
                                     FailedAfterRetrying}

\* C10: the invalidated-key set only grows: no step of any send or batch
\* removes a key from it.
C10_InvalidKeysOnlyGrow == [][invalid_keys \subseteq invalid_keys']_vars

\* C10 witness: a key was invalidated by an earlier send and later sends are
\* under way, one of them a task of a batch.
C10_Witness ==
    /\ invalid_keys # {}
    /\ chat.state = "running"
    /\ \E w \in Workers : ~InBatch(w) /\ pc[w] = "check" /\ attempts[w] = 0

\* The parameters in force for a call: the configured defaults, each
\* replaced by the value given per call where there is one.
InForce(kw) ==
    [k \in DOMAIN DefaultGenParams \cup DOMAIN kw |->
        IF k \in DOMAIN kw THEN kw[k] ELSE DefaultGenParams[k]]

Has(d, name, v) == name \in DOMAIN d /\ d[name] = v

\* C11: for a supported model and a positive token limit, the request body
\* carries the configured defaults (max tokens, top-p, temperature,
\* repetition penalty, stop sequences), each overridden by the value given
\* per call; with no per-call parameters it carries the defaults.
C11_BodyFromDefaults ==
    (/\ fn_in.op = "request"
     /\ IsGptOrQwen(fn_in.model_type) \/ IsInternlm(fn_in.model_type)
     /\ InForce(fn_in.kwargs)["max_new_tokens"] > 0) =>
        LET p == InForce(fn_in.kwargs)
        IN  /\ fn_out.exc = ""
            /\ Has(fn_out.data, "max_tokens", Min(p["max_new_tokens"], HardCeiling))
            /\ Has(fn_out.data, "top_p", p["top_p"])
            /\ Has(fn_out.data, "temperature", p["temperature"])
            /\ Has(fn_out.data, "frequency_penalty", p["repetition_penalty"])
            /\ Has(fn_out.data, "stop", p["stop_words"])

HasDuplicateRole(mt) ==
    \E i, j \in 1..Len(mt) : i # j /\ mt[i].role = mt[j].role

\* C12: constructing the template renderer fails with 'role in meta prompt
\* must be unique!' when two entries of the meta-template share a role
\* name, and otherwise succeeds with exactly one config per role, the
\* entry of that role.
C12_UniqueRolesOrFailure ==
    fn_in.op = "construct" =>
        LET mt == fn_in.meta_template
        IN  IF HasDuplicateRole(mt)
            THEN fn_out.exc = NotUnique
            ELSE /\ fn_out.exc = ""
                 /\ DOMAIN fn_out.roles = {mt[i].role : i \in 1..Len(mt)}
                 /\ \A i \in 1..Len(mt) : fn_out.roles[mt[i].role] = mt[i]

\* C12 witness: a meta-template whose first and third entries are two
\* different configs of the role user was refused.
C12_Witness ==
    /\ fn_in.op = "construct"
    /\ fn_in.meta_template = <<UserCfg, AsstGen, UserAlt>>
    /\ fn_out.exc = NotUnique

DanglingFallback(mt) ==
    \E i \in 1..Len(mt) :
        /\ "fallback_role" \in DOMAIN mt[i]
        /\ \A j \in 1..Len(mt) : mt[j].role # mt[i].fallback_role

\* C13: construction fails whenever some role's fallback_role names a role
\* that is not in the table, so no render call is made on a table with an
\* unresolved fallback.
C13_DanglingFallbackRejected ==
    /\ (fn_in.op = "construct" /\ DanglingFallback(fn_in.meta_template)) =>
           fn_out.exc # ""
    /\ fn_in.op = "render" => ~DanglingFallback(fn_in.meta_template)

\* Every structured turn of the dialogue has a role of the table whose
\* config resolves, and a begin phrase for its name if it carries one.
Renderable(roles, dialog) ==
    \A i \in 1..Len(dialog) :
        IsRaw(dialog[i]) \/
            /\ dialog[i].role \in DOMAIN roles
            /\ ~IsNone(Resolve(roles, dialog[i]).cfg)
            /\ FormatBegin(Resolve(roles, dialog[i]).cfg, dialog[i]).exc = ""

\* begin + content + end of a structured turn.
Closed(roles, turn) ==
    LET cfg == Resolve(roles, turn).cfg
    IN  FormatBegin(cfg, turn).text \o Get(turn, "content", <<>>)
            \o Get(cfg, "end", <<>>)

EndsWith(text, tail) ==
    /\ Len(tail) <= Len(text)
    /\ SubSeq(text, Len(text) - Len(tail) + 1, Len(text)) = tail

LastTurn(dialog) == dialog[Len(dialog)]

\* C14: when the last turn is a structured turn whose role is not assistant
\* and whose config (after a fallback, if any) is not flagged generate, the
\* rendered prompt ends with that turn's begin + content + end followed by
\* the assistant role's begin phrase without a name.
C14_AssistantBeginAfterLastTurn ==
    (/\ fn_in.op = "render"
     /\ fn_in.dialog # <<>>
     /\ Renderable(fn_in.roles, fn_in.dialog)
     /\ ~IsRaw(LastTurn(fn_in.dialog))
     /\ LastTurn(fn_in.dialog).role # "assistant"
     /\ "assistant" \in DOMAIN fn_in.roles
     /\ ~Get(Resolve(fn_in.roles, LastTurn(fn_in.dialog)).cfg, "generate", FALSE)) =>
        /\ fn_out.exc = ""
        /\ EndsWith(fn_out.text,
                    Closed(fn_in.roles, LastTurn(fn_in.dialog))
                        \o FormatBegin(fn_in.roles["assistant"], NoRoles).text)

\* The turns before the last, each rendered as it stands (raw) or as
\* begin + content + end.
RECURSIVE ClosedUpTo(_, _, _)
ClosedUpTo(roles, dialog, n) ==
    IF n = 0 THEN <<>>
    ELSE ClosedUpTo(roles, dialog, n - 1)
             \o (IF IsRaw(dialog[n]) THEN dialog[n].raw ELSE Closed(roles, dialog[n]))

\* C15: when the last turn resolves to a config with generate = true, the
\* prompt is the earlier turns (each begin + content + end, also those of
\* the same role) followed by the last turn's begin phrase and content only:
\* no end suffix and no assistant begin phrase.
C15_GenerateTurnLeftOpen ==
    (/\ fn_in.op = "render"
     /\ fn_in.dialog # <<>>
     /\ Renderable(fn_in.roles, fn_in.dialog)
     /\ ~IsRaw(LastTurn(fn_in.dialog))
     /\ Get(Resolve(fn_in.roles, LastTurn(fn_in.dialog)).cfg, "generate", FALSE)) =>
        LET last == LastTurn(fn_in.dialog)
            cfg == Resolve(fn_in.roles, last).cfg
        IN  /\ fn_out.exc = ""
            /\ fn_out.text =
                   ClosedUpTo(fn_in.roles, fn_in.dialog, Len(fn_in.dialog) - 1)
                       \o FormatBegin(cfg, last).text \o Get(last, "content", <<>>)

\* C15 witness: two assistant turns under the <S>/<U>/<A> meta-template; the
\* first is closed with </A>, the last is left open.
C15_Witness ==
    /\ fn_in.op = "render"
    /\ fn_in.meta_template = <<SysCfg, UserCfg, AsstGen>>
    /\ Len(fn_in.dialog) = 2
    /\ \A i \in 1..2 : fn_in.dialog[i] = [role |-> "assistant", content |-> <<"z">>]
    /\ fn_out.text = <<"<A>", "z", "</A>", "<A>", "z">>

\* C16: for a mapping given to parse_inputs, the mapping comes back
\* unchanged exactly when its keys include every required name and only
\* declared names; an undeclared key gives 'unknown arguments'; all keys
\* declared but a required one absent gives 'missing required arguments'.
C16_ValidatedMappingOrError ==
    (fn_in.op = "parse" /\ fn_in.input.kind = "dict") =>
        LET m == fn_in.input.value
            declared == SetOf(fn_in.parameters)
            needed == SetOf(fn_in.required)
        IN  /\ (fn_out.exc = "" /\ fn_out.value = m)
                   <=> (needed \subseteq DOMAIN m /\ DOMAIN m \subseteq declared)
            /\ (\E k \in DOMAIN m : k \notin declared) =>
                   fn_out.exc = UnknownArguments
            /\ (DOMAIN m \subseteq declared /\ ~(needed \subseteq DOMAIN m)) =>
                   fn_out.exc = MissingRequired

\* C16 witness: a mapping with an undeclared key and without a required one
\* was refused for the undeclared key.
C16_Witness ==
    /\ fn_in.op = "parse"
    /\ fn_in.input.kind = "dict"
    /\ fn_in.parameters = <<"a", "b">>
    /\ fn_in.required = <<"a">>
    /\ DOMAIN fn_in.input.value = {"b", "c"}
    /\ fn_out.exc = UnknownArguments

OrgSection == {"org_load", "org_store", "org_wrap_test", "org_wrap_set", "org_pick"}

\* A pass holds its key from line 90 until the request of line 102 returns.
HoldsKey(w) == pc[w] \in OrgSection \cup {"post"}

\* C17: in a non-concurrent send, once an attempt with key k got
\* insufficient_quota, k is in the invalidated set, and the attempt that
\* follows in that send holds a key other than k.
C17_QuotaForcesDifferentKey ==
    \A w \in Workers :
        prev_outcome[w] = "insufficient_quota" =>
            /\ prev_key[w] \in invalid_keys
            /\ HoldsKey(w) => key[w] # prev_key[w]

\* C17 witness: two different keys were valid, the pass with the first got
\* insufficient_quota, and the next pass of the same send holds the other.
C17_Witness ==
    \E w \in Workers :
        /\ caller = "single"
        /\ prev_outcome[w] = "insufficient_quota"
        /\ pc[w] = "post"
        /\ attempts[w] = 1
        /\ key[w] # prev_key[w]
        /\ invalid_keys = {prev_key[w]}

\* Index j is the first index after i, going round the key list, whose key is
\* not invalidated.
SelectedAfter(i, j) ==
    \E d \in 1..Len(keys) :
        /\ j = (i + d) % Len(keys)
        /\ At(keys, j) \notin invalid_keys
        /\ \A e \in 1..(d - 1) : At(keys, (i + e) % Len(keys)) \in invalid_keys

\* C18: with no concurrency, the selection that starts with the cursor at i
\* ends at the first non-invalidated key among keys[(i+1) mod n],
\* keys[(i+2) mod n], ..., and that key is the one the pass then holds; with
\* nothing invalidated this is keys[(i+1) mod n].
C18_CyclicSelectionSkipsInvalid ==
    \A w \in Workers :
        /\ pc[w] = "pick" =>
              /\ InRange(sel_from[w], keys)
              /\ SelectedAfter(sel_from[w], key_ctr)
              /\ invalid_keys = {} => key_ctr = (sel_from[w] + 1) % Len(keys)
        /\ HoldsKey(w) => InRange(key_ctr, keys) /\ key[w] = At(keys, key_ctr)

\* C18 witness: a selection over three keys that started at the last index,
\* wrapped round, skipped the invalidated first key and stopped at the second.
C18_Witness ==
    \E w \in Workers :
        /\ caller = "single"
        /\ pc[w] = "pick"
        /\ Len(keys) = 3
        /\ sel_from[w] = 2
        /\ keys[1] \in invalid_keys
        /\ key_ctr = 1

\* C19: under any interleaving of concurrent sends, the cursor is inside
\* 0..len(keys)-1 whenever a worker is about to index the key list with it
\* (lines 87 and 90), and no send ends with an index error.
C19_CursorInRangeWhenIndexing ==
    \A w \in Workers :
        /\ pc[w] \in {"valid_test", "pick"} => InRange(key_ctr, keys)
        /\ pc[w] = "done" => result[w] # Raised(IndexErrorExc)

\* C20: every entry into the key-selection step terminates: a worker inside
\* the `while True` loop of lines 82-88 eventually leaves it.
C20_KeySelectionTerminates ==
    \A w \in Workers : (pc[w] \in KeySection) ~> (pc[w] \notin KeySection)

====
